---- MODULE Spec2Model ----
(***************************************************************************)
(* A model of src/src/io.ts: the zip entry reader (parseIndex,             *)
(* BlobEntryReaderImpl, BlobEntryReader, getEntryMetadata, zipGetData),    *)
(* runWithTimeout and runWithTimedProgress.                                *)
(*                                                                         *)
(* JavaScript runs these on one thread: a handler (a timer callback, an    *)
(* animation frame, the settling of a promise) runs to its next await, and *)
(* the promise reactions it queued (microtasks) run before the next timer  *)
(* or frame callback.                                                      *)
(***************************************************************************)
EXTENDS Integers, Sequences, FiniteSets, TLC

\* ------------------------------------------------------------------ bounds

MaxOffset == 1
MaxFileNameLength == 1
MaxExtraFieldLength == 1
MaxSize == 2
MaxDecodedSize == 2
TrailLength == 1
MaxInits == 2
MaxTimeout == 2
MaxValue == 2
MaxDuration == 2
MaxTime == 3
MaxReports == 4

\* io.ts:87
ZIP_ENTRY_HEADER_BEGIN_LENGTH == 30

Min(a, b) == IF a < b THEN a ELSE b

Max(a, b) == IF a > b THEN a ELSE b

\* ------------------------------------------------------- the entry reader

VARIABLES
    layout,         \* how the archive was written: the entry's offset and fields
    blob,           \* the container's bytes (this.blob), never written
    decoded,        \* the bytes entry.getData produces when it succeeds
    reader,         \* BlobEntryReader.reader
    size,           \* BlobEntryReader.size
    initPc,         \* where each init() call stands
    initMeta,       \* each init() call's entryMetadata
    initError,      \* for each failed init() call: what entry.getData rejected
                    \* with (cause) and what init() threw (thrown)
    lastRead,       \* the last BlobEntryReader.readUint8Array call and its result
    readerWrites,   \* how many times this.reader was assigned
    getDataCalls,   \* how many times entry.getData was invoked
    headerReads     \* how many times the header was read from the blob

readerVars == <<layout, blob, decoded, reader, size, initPc, initMeta,
                initError, lastRead, readerWrites, getDataCalls, headerReads>>

VARIABLES
    tTimeout,       \* the timeout argument
    tPromise,       \* the wrapped promise: pending, or its outcome
    tCalled,        \* whether runWithTimeout has been called
    timedOut,       \* the sentinel
    timer,          \* the timer tid: idle, armed, due, fired, cleared
    chain,          \* the reaction of promise.then().catch().finally() to run next
    calls,          \* the calls of resolve and reject made, in order
    result,         \* the returned promise: pending, or its outcome
    order           \* which came first: the promise settling, the timer firing

timeoutVars == <<tTimeout, tPromise, tCalled, timedOut, timer, chain, calls,
                 result, order>>

VARIABLES
    duration,       \* the estimated duration
    clock,          \* the time new Date().getTime() last returned
    startTime,      \* startTime
    stop,           \* stop
    now,            \* the ticker's now
    ticker,         \* the progress loop: idle, frame (awaiting a frame), done
    main,           \* runWithTimedProgress itself: idle, race, awaitProgress,
                    \* awaitWork, returned, thrown
    work,           \* workPromise: pending, fulfilled, rejected
    reported,       \* the fractions passed to onProgress, in order
    ticksAfter      \* the tick callbacks the progress loop made on frames that
                    \* came after workPromise settled

progressVars ==
    <<duration, clock, startTime, stop, now, ticker, main, work, reported, ticksAfter>>

vars == <<readerVars, timeoutVars, progressVars>>

nonReaderVars == <<timeoutVars, progressVars>>

nonTimeoutVars == <<readerVars, progressVars>>

nonProgressVars == <<readerVars, timeoutVars>>

\* parseIndex without the cap at size.
parseIndexUncapped(index, sz) ==
    IF index < 0 THEN Max(index + sz, 0) ELSE index

\* parseIndex taking a negative index as 0.
parseIndexNoWrap(index, sz) ==
    IF index < 0 THEN 0 ELSE Min(index, sz)

\* index < 0 ? Math.max(index + size, 0) : Math.min(index, size)
parseIndex(index, sz) ==
    IF index < 0 THEN Max(index + sz, 0) ELSE Min(index, sz)

\* Blob.slice(start, end) of the host: each bound relative to the end when
\* negative, clamped to the blob, and an empty result when end <= start.
BlobSlice(b, start, end) ==
    LET n == Len(b)
        relStart == IF start < 0 THEN Max(n + start, 0) ELSE Min(start, n)
        relEnd == IF end < 0 THEN Max(n + end, 0) ELSE Min(end, n)
        span == Max(relEnd - relStart, 0)
    IN  SubSeq(b, relStart + 1, relStart + span)

\* getUint16 reading big-endian.
getUint16BigEndian(bytes, pos) == 256 * bytes[pos + 1] + bytes[pos + 2]

\* DataView.getUint16(pos, true) and getUint32(pos, true): little-endian.
getUint16(bytes, pos) == bytes[pos + 1] + 256 * bytes[pos + 2]

getUint32(bytes, pos) ==
    bytes[pos + 1] + 256 * bytes[pos + 2] + 65536 * bytes[pos + 3]
        + 16777216 * bytes[pos + 4]

\* getEntryMetadata(blob, entry): one read of the 30 bytes at entry.offset.
getEntryMetadata(b, offset) ==
    LET headerBeginRaw == BlobSlice(b, offset, offset + ZIP_ENTRY_HEADER_BEGIN_LENGTH)
        fileNameLength == getUint16(headerBeginRaw, 26)
        extraFieldLength == getUint16(headerBeginRaw, 28)
    IN  [offset |-> offset,
         compressionMethod |-> getUint16(headerBeginRaw, 8),
         compressedSize |-> getUint32(headerBeginRaw, 18),
         uncompressedSize |-> getUint32(headerBeginRaw, 22),
         headerSize |-> ZIP_ENTRY_HEADER_BEGIN_LENGTH + fileNameLength + extraFieldLength]

NoMeta ==
    [offset |-> 0, compressionMethod |-> 0, compressedSize |-> 0,
     uncompressedSize |-> 0, headerSize |-> 0]

\* The stored reader with the fixed 30 bytes in place of headerSize.
BlobEntryReaderImplFixedHeader(meta) ==
    [kind |-> "stored",
     offset |-> meta.offset + ZIP_ENTRY_HEADER_BEGIN_LENGTH,
     size |-> meta.compressedSize,
     data |-> <<>>]

\* new BlobEntryReaderImpl(blob, entryMetadata)
BlobEntryReaderImpl(meta) ==
    [kind |-> "stored",
     offset |-> meta.offset + meta.headerSize,
     size |-> meta.compressedSize,
     data |-> <<>>]

\* new BlobReader(entryBlob) of the archive library
BlobReader(entryBlob) ==
    [kind |-> "decoded", offset |-> 0, size |-> Len(entryBlob), data |-> entryBlob]

Undefined == [kind |-> "undefined", offset |-> 0, size |-> 0, data |-> <<>>]

\* BlobEntryReaderImpl.readUint8Array: the two bounds handed to blob.slice.
ImplStart(r, index) == parseIndex(index, r.size) + r.offset

ImplEnd(r, index, length) == parseIndex(index + length, r.size) + r.offset

ImplReadUint8Array(b, r, index, length) ==
    [status |-> "ok",
     start |-> ImplStart(r, index),
     end |-> ImplEnd(r, index, length),
     data |-> BlobSlice(b, ImplStart(r, index), ImplEnd(r, index, length))]

\* BlobReader.readUint8Array of the archive library: the slice of the decoded
\* buffer from index to index + length, no offset.
BlobReaderReadUint8Array(r, index, length) ==
    [status |-> "ok",
     start |-> index,
     end |-> index + length,
     data |-> BlobSlice(r.data, index, index + length)]

\* A read that answers with no bytes when reader is undefined.
readUint8ArrayLenient(b, r, index, length) ==
    CASE r.kind = "undefined" ->
            [status |-> "ok", start |-> 0, end |-> 0, data |-> <<>>]
      [] r.kind = "stored" -> ImplReadUint8Array(b, r, index, length)
      [] OTHER -> BlobReaderReadUint8Array(r, index, length)

\* this.reader!.readUint8Array(index, length): a TypeError when reader is
\* undefined (the promise of the async method rejects).
readUint8Array(b, r, index, length) ==
    CASE r.kind = "undefined" ->
            [status |-> "TypeError", start |-> 0, end |-> 0, data |-> <<>>]
      [] r.kind = "stored" -> ImplReadUint8Array(b, r, index, length)
      [] OTHER -> BlobReaderReadUint8Array(r, index, length)

\* ----------------------------------------------- the archive being read

\* A 16-bit and a 32-bit field as the archive writer lays them out.
LE16(v) == <<v % 256, (v \div 256) % 256>>

LE32(v) ==
    <<v % 256, (v \div 256) % 256, (v \div 65536) % 256, (v \div 16777216) % 256>>

\* The bytes of the entry's data region, and of what decoding yields: each
\* byte value names its position, and none occurs elsewhere in the container.
EntryData(n) == [i \in 1..n |-> 100 + i]

DecodedData(n) == [i \in 1..n |-> 200 + i]

Fill(n, v) == [i \in 1..n |-> v]

\* The local file header: signature, version, flags, method, time, date,
\* CRC-32, compressed size, uncompressed size, name length, extra length.
LocalFileHeader(l, uncompressedSize) ==
    <<80, 75, 3, 4>> \o LE16(20) \o LE16(0) \o LE16(l.compressionMethod)
        \o LE16(0) \o LE16(0) \o LE32(0)
        \o LE32(l.compressedSize) \o LE32(uncompressedSize)
        \o LE16(l.fileNameLength) \o LE16(l.extraFieldLength)

\* offset bytes of what precedes the entry, its header, name, extra field
\* and data, then the start of the next header.
Container(l, uncompressedSize) ==
    Fill(l.offset, 9) \o LocalFileHeader(l, uncompressedSize)
        \o Fill(l.fileNameLength, 65) \o Fill(l.extraFieldLength, 66)
        \o EntryData(l.compressedSize) \o Fill(TrailLength, 80)

Layouts ==
    [offset : 0..MaxOffset,
     fileNameLength : 0..MaxFileNameLength,
     extraFieldLength : 0..MaxExtraFieldLength,
     compressionMethod : {0, 8},
     compressedSize : 0..MaxSize]

InitIds == 1..MaxInits

NoError == [event |-> FALSE, type |-> "", hasTarget |-> FALSE, inner |-> "", id |-> ""]

\* An error that is no ProgressEvent.
PlainError(id) ==
    [event |-> FALSE, type |-> "", hasTarget |-> FALSE, inner |-> "", id |-> id]

\* What entry.getData may reject with: ProgressEvents of type error or abort,
\* with and without a target, and an error that is no event.
DecodeFailures ==
    [event : {TRUE}, type : {"error", "abort"}, hasTarget : BOOLEAN,
     inner : {"X"}, id : {"event"}] \cup {PlainError("Y")}

\* A catch clause that rethrows what it caught.
zipGetDataNoUnwrap(e) == e

\* The catch clause of zipGetData: what it throws for the failure e.
zipGetData(e) ==
    IF e.event /\ e.type = "error" /\ e.hasTarget
    THEN PlainError(e.inner)
    ELSE e

\* No failure: the record of an init() call that has not failed.
NoFailure == [cause |-> NoError, thrown |-> NoError]

NoRead ==
    [index |-> 0, length |-> 0, status |-> "none", start |-> 0, end |-> 0,
     data |-> <<>>, kind |-> "undefined", initDone |-> FALSE, initSuspended |-> FALSE]

ReaderInit ==
    /\ layout \in Layouts
    /\ \E d \in 0..MaxDecodedSize :
        /\ layout.compressionMethod = 0 => d = 0
        /\ decoded = IF layout.compressionMethod = 0
                     THEN EntryData(layout.compressedSize)
                     ELSE DecodedData(d)
    /\ blob = Container(layout, Len(decoded))
    /\ reader = Undefined
    /\ size = 0
    /\ initPc = [i \in InitIds |-> "idle"]
    /\ initMeta = [i \in InitIds |-> NoMeta]
    /\ initError = [i \in InitIds |-> NoFailure]
    /\ lastRead = NoRead
    /\ readerWrites = 0
    /\ getDataCalls = 0
    /\ headerReads = 0

\* init() is called: getEntryMetadata slices the header and awaits its bytes.
InitCall(i) ==
    /\ initPc[i] = "idle"
    /\ \A j \in InitIds : j < i => initPc[j] # "idle"
    /\ initPc' = [initPc EXCEPT ![i] = "header"]
    /\ headerReads' = headerReads + 1
    /\ UNCHANGED <<layout, blob, decoded, reader, size, initMeta, initError,
                   lastRead, readerWrites, getDataCalls>>
    /\ UNCHANGED nonReaderVars

\* init() taking the stored path for every entry.
IsStoredAlways(meta) == meta.compressionMethod = meta.compressionMethod

\* The branch of init() on compressionMethod, taken when the header arrives.
IsStored(meta) == meta.compressionMethod = 0

\* init() assigning the reader before it branches on the compression method.
InitHeaderReadEager(i) ==
    /\ initPc[i] = "header"
    /\ LET meta == getEntryMetadata(blob, layout.offset)
       IN  /\ initMeta' = [initMeta EXCEPT ![i] = meta]
           /\ reader' = BlobEntryReaderImpl(meta)
           /\ size' = reader'.size
           /\ readerWrites' = readerWrites + 1
           /\ IF IsStored(meta)
              THEN /\ initPc' = [initPc EXCEPT ![i] = "done"]
                   /\ UNCHANGED getDataCalls
              ELSE /\ getDataCalls' = getDataCalls + 1
                   /\ initPc' = [initPc EXCEPT ![i] = "decode"]
    /\ UNCHANGED <<layout, blob, decoded, initError, lastRead, headerReads>>
    /\ UNCHANGED nonReaderVars

\* The header bytes arrive: init() either builds the stored reader and
\* finishes, or calls zipGetData and awaits the decode.
InitHeaderRead(i) ==
    /\ initPc[i] = "header"
    /\ LET meta == getEntryMetadata(blob, layout.offset)
       IN  /\ initMeta' = [initMeta EXCEPT ![i] = meta]
           /\ IF IsStored(meta)
              THEN /\ reader' = BlobEntryReaderImpl(meta)
                   /\ size' = reader'.size
                   /\ readerWrites' = readerWrites + 1
                   /\ initPc' = [initPc EXCEPT ![i] = "done"]
                   /\ UNCHANGED getDataCalls
              ELSE /\ getDataCalls' = getDataCalls + 1
                   /\ initPc' = [initPc EXCEPT ![i] = "decode"]
                   /\ UNCHANGED <<reader, size, readerWrites>>
    /\ UNCHANGED <<layout, blob, decoded, initError, lastRead, headerReads>>
    /\ UNCHANGED nonReaderVars

\* The byte source fails to supply the header: getEntryMetadata rejects and
\* init() rejects with the same error.
InitHeaderFail(i) ==
    /\ initPc[i] = "header"
    /\ initPc' = [initPc EXCEPT ![i] = "failed"]
    /\ initError' = [initError EXCEPT
                       ![i] = [cause |-> NoError, thrown |-> PlainError("NotReadableError")]]
    /\ UNCHANGED <<layout, blob, decoded, reader, size, initMeta, lastRead,
                   readerWrites, getDataCalls, headerReads>>
    /\ UNCHANGED nonReaderVars

\* entry.getData fulfils: this.reader = new BlobReader(entryBlob), then size.
InitDecodeOk(i) ==
    /\ initPc[i] = "decode"
    /\ reader' = BlobReader(decoded)
    /\ size' = reader'.size
    /\ readerWrites' = readerWrites + 1
    /\ initPc' = [initPc EXCEPT ![i] = "done"]
    /\ UNCHANGED <<layout, blob, decoded, initMeta, initError, lastRead,
                   getDataCalls, headerReads>>
    /\ UNCHANGED nonReaderVars

\* init() calling entry.getData again when the decode fails.
InitDecodeFailRetry(i, e) ==
    /\ initPc[i] = "decode"
    /\ getDataCalls' = getDataCalls + 1
    /\ UNCHANGED <<layout, blob, decoded, reader, size, initPc, initMeta,
                   initError, lastRead, readerWrites, headerReads>>
    /\ UNCHANGED nonReaderVars

\* entry.getData rejects with e: zipGetData rethrows and init() rejects.
InitDecodeFail(i, e) ==
    /\ initPc[i] = "decode"
    /\ initPc' = [initPc EXCEPT ![i] = "failed"]
    /\ initError' = [initError EXCEPT ![i] = [cause |-> e, thrown |-> zipGetData(e)]]
    /\ UNCHANGED <<layout, blob, decoded, reader, size, initMeta, lastRead,
                   readerWrites, getDataCalls, headerReads>>
    /\ UNCHANGED nonReaderVars

\* The indexes and lengths a caller passes: below -size, inside, above size.
ReadArgs == (0 - (MaxSize + 1))..(MaxSize + 1)

\* BlobEntryReader.readUint8Array(index, length) is called; lastRead holds the
\* call, what init() had done by then, and what the returned promise settles
\* with. Reads change nothing, so one read at a time is followed.
Read(index, length) ==
    /\ lastRead.status = "none"
    /\ lastRead' =
          [index |-> index, length |-> length, kind |-> reader.kind,
           initDone |-> \E i \in InitIds : initPc[i] = "done",
           initSuspended |-> \E i \in InitIds : initPc[i] \in {"header", "decode"}]
          @@ readUint8Array(blob, reader, index, length)
    /\ UNCHANGED <<layout, blob, decoded, reader, size, initPc, initMeta,
                   initError, readerWrites, getDataCalls, headerReads>>
    /\ UNCHANGED nonReaderVars

\* The caller takes the result of the read.
ReadDone ==
    /\ lastRead.status # "none"
    /\ lastRead' = NoRead
    /\ UNCHANGED <<layout, blob, decoded, reader, size, initPc, initMeta,
                   initError, readerWrites, getDataCalls, headerReads>>
    /\ UNCHANGED nonReaderVars

\* One init() call and reads of every index and length.
ReadNext ==
    \/ InitCall(1)
    \/ InitHeaderRead(1)
    \/ InitHeaderFail(1)
    \/ InitDecodeOk(1)
    \/ \E e \in DecodeFailures : InitDecodeFail(1, e)
    \/ \E index \in ReadArgs, length \in ReadArgs : Read(index, length)
    \/ ReadDone

\* The values of the header's length and method fields that the header
\* parser is tried on: one and two bytes wide.
HeaderFieldValues == {0, 1, 255, 256, 257, 65535}

\* The sizes the header parser is tried on: one to four bytes wide.
HeaderSizeValues == {0, 1, 65536, 16777217}

\* Containers cut after the 30 bytes that getEntryMetadata reads, with every
\* combination of field values.
HeaderInit ==
    /\ layout \in [offset : 0..MaxOffset,
                   fileNameLength : HeaderFieldValues,
                   extraFieldLength : HeaderFieldValues,
                   compressionMethod : {0, 8, 256},
                   compressedSize : HeaderSizeValues]
    /\ decoded = <<>>
    /\ blob = Fill(layout.offset, 9) \o LocalFileHeader(layout, layout.compressedSize)
    /\ reader = Undefined
    /\ size = 0
    /\ initPc = [i \in InitIds |-> "idle"]
    /\ initMeta = [i \in InitIds |-> NoMeta]
    /\ initError = [i \in InitIds |-> NoFailure]
    /\ lastRead = NoRead
    /\ readerWrites = 0
    /\ getDataCalls = 0
    /\ headerReads = 0

\* init() called up to MaxInits times, each call parsing the header.
HeaderNext ==
    \/ \E i \in InitIds : InitCall(i)
    \/ \E i \in InitIds : InitHeaderRead(i)

\* init() called up to MaxInits times, the calls overlapping, a decode that
\* fails with an error that is no event, and reads of the entry's first bytes.
ReaderNext ==
    \/ \E i \in InitIds : InitCall(i)
    \/ \E i \in InitIds : InitHeaderRead(i)
    \/ \E i \in InitIds : InitHeaderFail(i)
    \/ \E i \in InitIds : InitDecodeOk(i)
    \/ \E i \in InitIds : InitDecodeFail(i, PlainError("Y"))
    \/ \E length \in 0..MaxSize : Read(0, length)
    \/ ReadDone

\* ---------------------------------------------------------- runWithTimeout

Pending == [state |-> "pending", name |-> "", payload |-> 0]

Fulfilled(v) == [state |-> "fulfilled", name |-> "", payload |-> v]

\* A rejection with an error of the wrapped operation.
Rejected(e) == [state |-> "rejected", name |-> "Error", payload |-> e]

\* A TimeoutError whose timeout field is left at 0.
TimeoutErrorNoField(timeout) ==
    [state |-> "rejected", name |-> "TimeoutError", payload |-> 0]

\* reject(new TimeoutError(timeout)): name "TimeoutError", timeout field set.
TimeoutError(timeout) ==
    [state |-> "rejected", name |-> "TimeoutError", payload |-> timeout]

\* What the wrapped promise may settle with.
Outcomes ==
    {Fulfilled(v) : v \in 1..MaxValue} \cup {Rejected(e) : e \in 1..MaxValue}

\* resolve(x) and reject(x) of the returned promise: the first call settles
\* it, later calls change nothing.
Settle(p, outcome) == IF p.state = "pending" THEN outcome ELSE p

TimeoutInit ==
    /\ tTimeout \in 0..MaxTimeout
    /\ tPromise \in {Pending} \cup Outcomes
    /\ tCalled = FALSE
    /\ timedOut = FALSE
    /\ timer = "idle"
    /\ chain = "none"
    /\ calls = <<>>
    /\ result = Pending
    /\ order = IF tPromise.state = "pending" THEN <<>> ELSE <<"settle">>

\* runWithTimeout(promise, timeout) is called: the executor starts the timer
\* and registers the reactions; a promise that is already settled queues the
\* first of them.
runWithTimeout ==
    /\ ~tCalled
    /\ tCalled' = TRUE
    /\ timedOut' = FALSE
    /\ timer' = "armed"
    /\ chain' = IF tPromise.state = "pending" THEN "none" ELSE "then"
    /\ UNCHANGED <<tTimeout, tPromise, calls, result, order>>
    /\ UNCHANGED nonTimeoutVars

\* The wrapped promise settles, which queues its first reaction.
PromiseSettles(outcome) ==
    /\ tPromise.state = "pending"
    /\ tPromise' = outcome
    /\ order' = Append(order, "settle")
    /\ chain' = IF tCalled THEN "then" ELSE chain
    /\ UNCHANGED <<tTimeout, tCalled, timedOut, timer, calls, result>>
    /\ UNCHANGED nonTimeoutVars

\* The timeout elapses: the timer's callback is ready to run.
TimerDue ==
    /\ timer = "armed"
    /\ timer' = "due"
    /\ UNCHANGED <<tTimeout, tPromise, tCalled, timedOut, chain, calls, result, order>>
    /\ UNCHANGED nonTimeoutVars

\* The timer's callback setting timedOut without rejecting.
TimerFiresNoReject ==
    /\ timer = "due"
    /\ chain \notin {"then", "catch", "finally"}
    /\ timer' = "fired"
    /\ timedOut' = TRUE
    /\ order' = Append(order, "fire")
    /\ UNCHANGED <<tTimeout, tPromise, tCalled, chain, calls, result>>
    /\ UNCHANGED nonTimeoutVars

\* The timer's callback runs, once no promise reaction is waiting to run:
\* timedOut = true; reject(new TimeoutError(timeout)).
TimerFires ==
    /\ timer = "due"
    /\ chain \notin {"then", "catch", "finally"}
    /\ timer' = "fired"
    /\ timedOut' = TRUE
    /\ calls' = Append(calls, TimeoutError(tTimeout))
    /\ result' = Settle(result, TimeoutError(tTimeout))
    /\ order' = Append(order, "fire")
    /\ UNCHANGED <<tTimeout, tPromise, tCalled, chain>>
    /\ UNCHANGED nonTimeoutVars

\* The then callback without the test of timedOut.
ThenJobUnguarded ==
    /\ chain = "then"
    /\ chain' = "catch"
    /\ IF tPromise.state = "fulfilled"
       THEN /\ calls' = Append(calls, tPromise)
            /\ result' = Settle(result, tPromise)
       ELSE UNCHANGED <<calls, result>>
    /\ UNCHANGED <<tTimeout, tPromise, tCalled, timedOut, timer, order>>
    /\ UNCHANGED nonTimeoutVars

\* .then((val) => { if (!timedOut) resolve(val) }): runs when the promise has
\* fulfilled; a rejection passes through.
ThenJob ==
    /\ chain = "then"
    /\ chain' = "catch"
    /\ IF tPromise.state = "fulfilled" /\ ~timedOut
       THEN /\ calls' = Append(calls, tPromise)
            /\ result' = Settle(result, tPromise)
       ELSE UNCHANGED <<calls, result>>
    /\ UNCHANGED <<tTimeout, tPromise, tCalled, timedOut, timer, order>>
    /\ UNCHANGED nonTimeoutVars

\* .catch((err) => { if (!timedOut) reject(err) }): runs when the promise has
\* rejected; a fulfilment passes through.
CatchJob ==
    /\ chain = "catch"
    /\ chain' = "finally"
    /\ IF tPromise.state = "rejected" /\ ~timedOut
       THEN /\ calls' = Append(calls, tPromise)
            /\ result' = Settle(result, tPromise)
       ELSE UNCHANGED <<calls, result>>
    /\ UNCHANGED <<tTimeout, tPromise, tCalled, timedOut, timer, order>>
    /\ UNCHANGED nonTimeoutVars

\* The finally callback without clearTimeout.
FinallyJobNoClear ==
    /\ chain = "finally"
    /\ chain' = "done"
    /\ UNCHANGED <<tTimeout, tPromise, tCalled, timedOut, timer, calls, result, order>>
    /\ UNCHANGED nonTimeoutVars

\* The finally callback with its test inverted.
FinallyJobInverted ==
    /\ chain = "finally"
    /\ chain' = "done"
    /\ timer' = IF timedOut /\ timer \in {"armed", "due"} THEN "cleared" ELSE timer
    /\ UNCHANGED <<tTimeout, tPromise, tCalled, timedOut, calls, result, order>>
    /\ UNCHANGED nonTimeoutVars

\* .finally(() => { if (!timedOut) clearTimeout(tid) })
FinallyJob ==
    /\ chain = "finally"
    /\ chain' = "done"
    /\ timer' = IF ~timedOut /\ timer \in {"armed", "due"} THEN "cleared" ELSE timer
    /\ UNCHANGED <<tTimeout, tPromise, tCalled, timedOut, calls, result, order>>
    /\ UNCHANGED nonTimeoutVars

TimeoutNext ==
    \/ runWithTimeout
    \/ \E outcome \in Outcomes : PromiseSettles(outcome)
    \/ TimerDue
    \/ TimerFires
    \/ ThenJob
    \/ CatchJob
    \/ FinallyJob

\* The state of a runWithTimeout that is never called.
TimeoutIdle ==
    /\ tTimeout = 0
    /\ tPromise = Pending
    /\ tCalled = FALSE
    /\ timedOut = FALSE
    /\ timer = "idle"
    /\ chain = "none"
    /\ calls = <<>>
    /\ result = Pending
    /\ order = <<>>

\* The state of a reader that is never constructed.
ReaderIdle ==
    /\ layout = [offset |-> 0, fileNameLength |-> 0, extraFieldLength |-> 0,
                 compressionMethod |-> 0, compressedSize |-> 0]
    /\ blob = <<>>
    /\ decoded = <<>>
    /\ reader = Undefined
    /\ size = 0
    /\ initPc = [i \in InitIds |-> "idle"]
    /\ initMeta = [i \in InitIds |-> NoMeta]
    /\ initError = [i \in InitIds |-> NoFailure]
    /\ lastRead = NoRead
    /\ readerWrites = 0
    /\ getDataCalls = 0
    /\ headerReads = 0

\* ---------------------------------------------------- runWithTimedProgress

\* A fraction passed to onProgress, kept as numerator and denominator.
Zero == [num |-> 0, den |-> 1]

One == [num |-> 1, den |-> 1]

\* The fraction of the time left, where the code reports the time elapsed.
TickFractionRemaining(n, start, d) == [num |-> (start + d) - n, den |-> d]

\* (now - startTime) / duration
TickFraction(n, start, d) == [num |-> n - start, den |-> d]

\* A run that ends without its last callback.
OnProgressFinalSkipped(r) == r

\* onProgress(action, item, 1.0), the last statement
OnProgressFinal(r) == Append(r, One)

\* while (!stop && now < targetTime)
LoopContinues(stopped, n, targetTime) == ~stopped /\ n < targetTime

\* new Date().getTime(): a time not before the one last read.
ClockReads(c) == c..MaxTime

ProgressInit ==
    /\ duration \in 1..MaxDuration
    /\ clock = 0
    /\ startTime = 0
    /\ stop = FALSE
    /\ now = 0
    /\ ticker = "idle"
    /\ main = "idle"
    /\ work \in {"pending", "fulfilled", "rejected"}
    /\ reported = <<>>
    /\ ticksAfter = 0

\* runWithTimedProgress is called and runs to its first await: it reports
\* 0.0, the progress loop makes its first report and awaits a frame, and the
\* race is awaited. A workPromise that has settled already settles the race:
\* fulfilled, stop is set and progressPromise awaited; rejected, the run throws.
runWithTimedProgress ==
    /\ main = "idle"
    /\ \E t0 \in ClockReads(clock) : \E n \in ClockReads(t0) :
        /\ startTime' = t0
        /\ now' = n
        /\ clock' = n
        /\ reported' = <<Zero, TickFraction(n, t0, duration)>>
    /\ ticker' = "frame"
    /\ stop' = (work = "fulfilled")
    /\ main' = CASE work = "pending" -> "race"
                 [] work = "fulfilled" -> "awaitProgress"
                 [] OTHER -> "thrown"
    /\ UNCHANGED <<duration, work, ticksAfter>>
    /\ UNCHANGED nonProgressVars

\* An animation frame: the progress loop tests its condition and either
\* reports again and awaits the next frame, or ends.
Frame ==
    /\ ticker = "frame"
    /\ IF LoopContinues(stop, now, startTime + duration)
       THEN /\ Len(reported) < MaxReports
            /\ \E n \in ClockReads(clock) :
                /\ now' = n
                /\ clock' = n
                /\ reported' = Append(reported, TickFraction(n, startTime, duration))
            /\ ticksAfter' = IF work # "pending" THEN ticksAfter + 1 ELSE ticksAfter
            /\ UNCHANGED <<ticker, main, stop>>
       ELSE /\ ticker' = "done"
            /\ CASE main = "race" ->
                      \* the race is won by progressPromise; workPromise is awaited
                      /\ stop' = TRUE
                      /\ main' = "awaitWork"
                      /\ UNCHANGED reported
                 [] main = "awaitProgress" ->
                      \* workPromise has fulfilled already
                      /\ main' = "returned"
                      /\ reported' = OnProgressFinal(reported)
                      /\ UNCHANGED stop
                 [] OTHER -> UNCHANGED <<main, stop, reported>>
            /\ UNCHANGED <<now, clock, ticksAfter>>
    /\ UNCHANGED <<duration, startTime, work>>
    /\ UNCHANGED nonProgressVars

\* workPromise fulfilling with the run returning at once, the progress loop
\* not awaited.
WorkFulfilsNoAwait ==
    /\ work = "pending"
    /\ work' = "fulfilled"
    /\ CASE main \in {"race", "awaitWork"} ->
              /\ stop' = TRUE
              /\ main' = "returned"
              /\ reported' = OnProgressFinal(reported)
         [] OTHER -> UNCHANGED <<main, stop, reported>>
    /\ UNCHANGED <<duration, clock, startTime, now, ticker, ticksAfter>>
    /\ UNCHANGED nonProgressVars

\* workPromise fulfils.
WorkFulfils ==
    /\ work = "pending"
    /\ work' = "fulfilled"
    /\ CASE main = "race" ->
              \* the race is won by workPromise; progressPromise is awaited
              /\ stop' = TRUE
              /\ main' = "awaitProgress"
              /\ UNCHANGED reported
         [] main = "awaitWork" ->
              /\ main' = "returned"
              /\ reported' = OnProgressFinal(reported)
              /\ UNCHANGED stop
         [] OTHER -> UNCHANGED <<main, stop, reported>>
    /\ UNCHANGED <<duration, clock, startTime, now, ticker, ticksAfter>>
    /\ UNCHANGED nonProgressVars

\* workPromise rejects: the await of the race, or of workPromise, throws.
WorkRejects ==
    /\ work = "pending"
    /\ work' = "rejected"
    /\ main' = IF main \in {"race", "awaitWork"} THEN "thrown" ELSE main
    /\ UNCHANGED <<duration, clock, startTime, stop, now, ticker, reported, ticksAfter>>
    /\ UNCHANGED nonProgressVars

ProgressNext ==
    \/ runWithTimedProgress
    \/ Frame
    \/ WorkFulfils
    \/ WorkRejects

\* ---------------------------------------------------------- specifications

\* The state of a runWithTimedProgress that is never called.
ProgressIdle ==
    /\ duration = 1
    /\ clock = 0
    /\ startTime = 0
    /\ stop = FALSE
    /\ now = 0
    /\ ticker = "idle"
    /\ main = "idle"
    /\ work = "pending"
    /\ reported = <<>>
    /\ ticksAfter = 0

ReadInit == ReaderInit /\ TimeoutIdle /\ ProgressIdle

SpecRead == ReadInit /\ [][ReadNext]_vars

SpecReader == ReadInit /\ [][ReaderNext]_vars

HeaderStartInit == HeaderInit /\ TimeoutIdle /\ ProgressIdle

SpecHeader == HeaderStartInit /\ [][HeaderNext]_vars

TimeoutStartInit == TimeoutInit /\ ReaderIdle /\ ProgressIdle

SpecTimeout == TimeoutStartInit /\ [][TimeoutNext]_vars

\* The event loop keeps running: the timeout of a started timer elapses, the
\* callback of a due timer that was not cancelled runs, and queued promise
\* reactions run. Nothing is assumed about the wrapped promise or the caller.
SpecTimeoutFair ==
    /\ TimeoutStartInit
    /\ [][TimeoutNext]_vars
    /\ WF_vars(TimerDue)
    /\ WF_vars(TimerFires)
    /\ WF_vars(ThenJob)
    /\ WF_vars(CatchJob)
    /\ WF_vars(FinallyJob)

ProgressStartInit == ProgressInit /\ ReaderIdle /\ TimeoutIdle

SpecProgress == ProgressStartInit /\ [][ProgressNext]_vars

\* ------------------------------------------------- the reader's properties

\* The entry's data window in the container, from how the archive was written.
DataStart ==
    layout.offset + ZIP_ENTRY_HEADER_BEGIN_LENGTH + layout.fileNameLength
        + layout.extraFieldLength

DataEnd == DataStart + layout.compressedSize

\* C6: whatever index and length, the stored reader hands blob.slice two
\* bounds inside [offset + headerSize, offset + headerSize + compressedSize],
\* and every byte it returns is a byte of the entry's data.
C6_SliceInsideWindow ==
    lastRead.kind = "stored" =>
        /\ lastRead.start \in DataStart..DataEnd
        /\ lastRead.end \in DataStart..DataEnd
        /\ \A k \in 1..Len(lastRead.data) :
               \E i \in 1..layout.compressedSize : lastRead.data[k] = 100 + i

\* A read that asks for bytes beyond the end of the entry and gets the
\* entry's bytes up to its end and nothing of what follows.
C6_Witness ==
    /\ lastRead.kind = "stored"
    /\ layout.compressedSize >= 2
    /\ lastRead.index = 1
    /\ lastRead.index + lastRead.length > layout.compressedSize
    /\ lastRead.end = DataEnd
    /\ lastRead.data = SubSeq(EntryData(layout.compressedSize), 2, layout.compressedSize)

\* C7: on a stored entry of size S >= 1, readUint8Array(-1, 1) returns one
\* byte, the last byte of the entry's data.
C7_LastByte ==
    (/\ lastRead.kind = "stored"
     /\ layout.compressedSize >= 1
     /\ lastRead.index = 0 - 1
     /\ lastRead.length = 1)
        => lastRead.data = <<100 + layout.compressedSize>>

\* C8: on a stored entry, once init() has completed, readUint8Array(0, S)
\* returns the container's bytes in [offset + headerSize, offset + headerSize
\* + S), the bytes the archive holds as the entry's data.
C8_StoredFullRead ==
    (/\ lastRead.status # "none"
     /\ lastRead.initDone
     /\ layout.compressionMethod = 0
     /\ lastRead.index = 0
     /\ lastRead.length = layout.compressedSize)
        => /\ lastRead.status = "ok"
           /\ lastRead.data = SubSeq(blob, DataStart + 1, DataEnd)
           /\ lastRead.data = EntryData(layout.compressedSize)

\* The full read of a stored entry that lies behind other bytes, a file name
\* and an extra field.
C8_Witness ==
    /\ lastRead.status = "ok"
    /\ lastRead.initDone
    /\ layout.compressionMethod = 0
    /\ layout.offset >= 1
    /\ layout.fileNameLength >= 1
    /\ layout.extraFieldLength >= 1
    /\ layout.compressedSize >= 2
    /\ lastRead.index = 0
    /\ lastRead.length = layout.compressedSize
    /\ Len(lastRead.data) = layout.compressedSize

\* C9: on a compressed entry, once init() has completed, a read of any
\* sub-range returns those bytes of the buffer the decode produced.
C9_DecodedSubRange ==
    (/\ lastRead.status # "none"
     /\ lastRead.initDone
     /\ layout.compressionMethod # 0
     /\ lastRead.index >= 0
     /\ lastRead.length >= 0
     /\ lastRead.index + lastRead.length <= Len(decoded))
        => /\ lastRead.status = "ok"
           /\ lastRead.data =
                 SubSeq(decoded, lastRead.index + 1, lastRead.index + lastRead.length)

\* A read of decoded bytes that starts after the first one.
C9_Witness ==
    /\ lastRead.status = "ok"
    /\ lastRead.initDone
    /\ layout.compressionMethod # 0
    /\ lastRead.index >= 1
    /\ lastRead.length >= 1
    /\ lastRead.data = <<200 + lastRead.index + 1>>

\* C10: a read issued while no init() call has completed (none made, or
\* suspended on the header or the decode, or failed) settles with an error
\* and returns no data.
C10_ReadBeforeInitFails ==
    (lastRead.status # "none" /\ ~lastRead.initDone)
        => lastRead.status = "TypeError" /\ lastRead.data = <<>>

\* A read that failed while init() was suspended on the decode.
C10_Witness ==
    /\ lastRead.status = "TypeError"
    /\ lastRead.initSuspended
    /\ ~lastRead.initDone
    /\ initPc[1] = "decode"
    /\ \A i \in InitIds : i # 1 => initPc[i] = "idle"

\* The init() calls whose header has been parsed.
Parsed == {i \in InitIds : initPc[i] \in {"decode", "done"}}

\* C11: for every header, getEntryMetadata returns headerSize = 30 +
\* fileNameLength + extraFieldLength, the lengths being the little-endian
\* 16-bit fields at bytes 26..27 and 28..29 (the lengths the archive was
\* written with); two parses of the same bytes return equal metadata, and a
\* parse leaves the container as it was.
C11_HeaderSize ==
    /\ [](\A i \in Parsed :
            /\ initMeta[i].headerSize =
                  30 + layout.fileNameLength + layout.extraFieldLength
            /\ initMeta[i].headerSize =
                  30 + (blob[layout.offset + 27] + 256 * blob[layout.offset + 28])
                     + (blob[layout.offset + 29] + 256 * blob[layout.offset + 30])
            /\ initMeta[i].offset = layout.offset
            /\ initMeta[i].compressionMethod = layout.compressionMethod
            /\ initMeta[i].compressedSize = layout.compressedSize
            /\ \A j \in Parsed : initMeta[j] = initMeta[i])
    /\ [][blob' = blob]_vars

\* Two parses of a header whose length fields are two bytes wide.
C11_Witness ==
    /\ {1, 2} \subseteq Parsed
    /\ layout.fileNameLength = 257
    /\ layout.extraFieldLength = 256
    /\ layout.offset >= 1
    /\ initMeta[2].headerSize = 543

\* C12: when entry.getData rejects with an error-type ProgressEvent that has
\* a target, zipGetData (and so init()) throws target.error; when it rejects
\* with anything else, zipGetData throws that; in both cases the call fails:
\* no reader is set.
C12_Unwrap ==
    \A i \in InitIds :
        (initPc[i] = "failed" /\ initError[i].cause # NoError) =>
            LET e == initError[i].cause
                t == initError[i].thrown
            IN  /\ (e.event /\ e.type = "error" /\ e.hasTarget)
                       => t = [event |-> FALSE, type |-> "", hasTarget |-> FALSE,
                               inner |-> "", id |-> e.inner]
                /\ ~(e.event /\ e.type = "error" /\ e.hasTarget) => t = e
                /\ t # NoError
                /\ reader = Undefined

\* A decode that failed with a wrapped error, unwrapped to X.
C12_Witness ==
    /\ initPc[1] = "failed"
    /\ initError[1].cause.event
    /\ initError[1].cause.type = "error"
    /\ initError[1].cause.hasTarget
    /\ initError[1].thrown.id = "X"

\* C13: over any sequence of operations on one BlobEntryReader, init() called
\* more than once included, the reader field is written at most once.
C13_WrittenOnce == readerWrites <= 1

\* C16: a read of a stored entry of size S is never rejected and returns the
\* entry's bytes in [c(index), c(index + length)), each bound clamped on its
\* own: c(v) = max(v + S, 0) for v < 0 and min(v, S) otherwise; the result is
\* empty when the clamped end is not above the clamped start.
C16_ClampedRange ==
    (lastRead.status # "none" /\ lastRead.kind = "stored") =>
        LET S == layout.compressedSize
            c(v) == IF v < 0 THEN (IF v + S > 0 THEN v + S ELSE 0)
                             ELSE (IF v < S THEN v ELSE S)
            from == c(lastRead.index)
            to == c(lastRead.index + lastRead.length)
        IN  /\ lastRead.status = "ok"
            /\ lastRead.data =
                  IF to <= from THEN <<>>
                  ELSE [k \in 1..(to - from) |-> 100 + from + k]
            /\ (lastRead.index = S /\ lastRead.length >= 1) => lastRead.data = <<>>
            /\ (lastRead.index < -S /\ lastRead.data # <<>>)
                   => lastRead.data[1] = 101

\* A read whose start lies before the entry is clamped to its first byte.
C16_Witness ==
    /\ lastRead.status = "ok"
    /\ lastRead.kind = "stored"
    /\ layout.compressedSize = 2
    /\ lastRead.index = -3
    /\ lastRead.length = 2
    /\ lastRead.data = <<101>>

\* The init() calls that have failed.
Failed == {i \in InitIds : initPc[i] = "failed"}

\* The init() calls that have completed.
Done == {i \in InitIds : initPc[i] = "done"}

\* C18: an init() call that fails throws to its caller and sets neither
\* reader nor size: the step in which it fails leaves both as they were, and
\* while no init() call has completed the accessor is uninitialized (reader
\* unset, size unset) and a read fails and returns no data.
C18_FailedInitSetsNothing ==
    /\ [](\A i \in Failed : initError[i].thrown # NoError)
    /\ []((Done = {}) =>
             /\ reader = Undefined
             /\ size = 0
             /\ readerWrites = 0
             /\ lastRead.status \in {"none", "TypeError"}
             /\ lastRead.data = <<>>)
    /\ [][(Failed' # Failed) =>
             /\ reader' = reader
             /\ size' = size
             /\ readerWrites' = readerWrites]_vars

\* A decode failed, and a read made after the failure failed too.
C18_Witness ==
    /\ initPc[1] = "failed"
    /\ initError[1].cause # NoError
    /\ Done = {}
    /\ lastRead.status = "TypeError"
    /\ ~lastRead.initSuspended

\* The init() calls that have invoked entry.getData.
Decoding ==
    {i \in InitIds : \/ initPc[i] = "decode"
                     \/ initPc[i] = "done" /\ layout.compressionMethod # 0
                     \/ initPc[i] = "failed" /\ initError[i].cause # NoError}

\* C20: every init() call reads the header once, invokes entry.getData once
\* when compressionMethod # 0 (a failed decode is not retried) and never when
\* compressionMethod = 0; a read invokes neither.
C20_DecodeOncePerInit ==
    /\ [](headerReads = Cardinality({i \in InitIds : initPc[i] # "idle"}))
    /\ [](getDataCalls = Cardinality(Decoding))
    /\ [](layout.compressionMethod = 0 => getDataCalls = 0)
    /\ [][(lastRead' # lastRead) =>
             /\ getDataCalls' = getDataCalls
             /\ headerReads' = headerReads]_vars
    /\ [][(Failed' # Failed) => getDataCalls' = getDataCalls]_vars

\* One init() call of a compressed entry whose decode failed, the other not
\* yet made, and a read after the failure: one decode in all.
C20_Witness ==
    /\ layout.compressionMethod # 0
    /\ initPc[1] = "failed"
    /\ initError[1].cause # NoError
    /\ initPc[2] = "idle"
    /\ getDataCalls = 1
    /\ headerReads = 1
    /\ lastRead.status # "none"

\* ------------------------------------------------ runWithTimeout's properties

\* C1: under every interleaving of the timer and the wrapped promise, at most
\* one outcome is reported (resolve and reject are called at most once in
\* all, so never a TimeoutError and the promise's outcome both), and once
\* the returned promise has settled its outcome never changes.
C1_AtMostOneOutcome ==
    /\ [](Len(calls) <= 1 /\ (calls # <<>> => result = calls[1]))
    /\ [][result.state # "pending" => result' = result]_vars

\* The timer fired, the wrapped promise rejected afterwards and all of its
\* reactions ran: one outcome was reported.
C1_Witness ==
    /\ order = <<"fire", "settle">>
    /\ tPromise.state = "rejected"
    /\ chain = "done"
    /\ Len(calls) = 1

\* C2: when the wrapped promise settles before the timer fires, the timer
\* never fires, no TimeoutError is reported, the returned promise settles
\* with the wrapped promise's outcome, and the timer ends cancelled.
C2_PromiseFirst ==
    (tCalled /\ order # <<>> /\ order[1] = "settle") =>
        /\ ~timedOut
        /\ timer # "fired"
        /\ \A k \in 1..Len(calls) : calls[k] = tPromise
        /\ chain \in {"finally", "done"} => result = tPromise
        /\ chain = "done" => timer = "cleared"

\* The promise's outcome delivered while the timer is already due.
C2_Witness ==
    /\ order = <<"settle">>
    /\ timer = "due"
    /\ chain = "finally"
    /\ result = tPromise

\* The wrapped promise is pending and able to settle.
PromiseCanSettle == \E outcome \in Outcomes : PromiseSettles(outcome)

\* C3: when the timer fires before the wrapped promise settles, the returned
\* promise rejects with a TimeoutError whose timeout is the configured one;
\* the wrapped promise stays able to settle, and what it settles with is
\* not delivered.
C3_TimerFirst ==
    (order # <<>> /\ order[1] = "fire") =>
        /\ result.state = "rejected"
        /\ result.name = "TimeoutError"
        /\ result.payload = tTimeout
        /\ calls = <<result>>
        /\ tPromise.state = "pending" => ENABLED PromiseCanSettle

\* The timer fired with a timeout above 0, the wrapped promise fulfilled
\* afterwards and all of its reactions ran.
C3_Witness ==
    /\ order = <<"fire", "settle">>
    /\ tTimeout > 0
    /\ tPromise.state = "fulfilled"
    /\ chain = "done"
    /\ result.name = "TimeoutError"

\* C15: once the wrapped promise has settled and its reactions have run, the
\* timer is fired or cancelled, never left pending; a cancelled timer stays
\* cancelled: its callback never runs and no TimeoutError is reported.
C15_NoTimerLeak ==
    /\ [](chain = "done" => timer \in {"fired", "cleared"})
    /\ [](timer = "cleared" =>
             /\ ~timedOut
             /\ \A k \in 1..Len(order) : order[k] # "fire"
             /\ \A k \in 1..Len(calls) : calls[k].name # "TimeoutError")
    /\ [][timer = "cleared" => timer' = "cleared"]_vars

\* A rejected promise whose reactions have run: the timer is cancelled.
C15_Witness ==
    /\ order = <<"settle">>
    /\ tPromise.state = "rejected"
    /\ chain = "done"
    /\ timer = "cleared"
    /\ result = tPromise

\* C19: once runWithTimeout is called, the promise it returned eventually
\* settles, whether or not the wrapped promise ever does.
C19_EventuallySettles == tCalled ~> (result.state # "pending")

\* The wrapped promise is still pending and the caller has a TimeoutError.
C19_Witness ==
    /\ tCalled
    /\ tPromise.state = "pending"
    /\ order = <<"fire">>
    /\ result.state = "rejected"
    /\ result.name = "TimeoutError"

\* ------------------------------------------ runWithTimedProgress's properties

\* a <= b, for fractions with positive denominators
Leq(a, b) == a.num * b.den <= b.num * a.den

IsOne(f) == f.num = f.den

Last(r) == r[Len(r)]

Ticks == IF main = "returned" THEN Len(reported) - 1 ELSE Len(reported)

\* C5: the first callback reports 0.0, and the fractions reported before the
\* final 1.0 never decrease.
C5_NonDecreasing ==
    reported # <<>> =>
        /\ reported[1] = Zero
        /\ \A i \in 1..(Ticks - 1) : Leq(reported[i], reported[i + 1])

\* A completed run with growing fractions, the last of them above the
\* final 1.0.
C5_Witness ==
    /\ main = "returned"
    /\ Len(reported) >= 4
    /\ ~Leq(reported[3], reported[2])
    /\ ~Leq(reported[Len(reported) - 1], Last(reported))

\* C14: once workPromise has settled, in any way, the progress loop makes at
\* most one more tick callback.
C14_AtMostOneMoreTick == ticksAfter <= 1

\* C17: the run returns only when the progress loop has ended and
\* workPromise has fulfilled; the 1.0 callback is made in the step that
\* returns, so only after both, and no tick follows it.
C17_ReturnsAfterBoth ==
    /\ [](main = "returned" =>
             /\ ticker = "done"
             /\ work = "fulfilled"
             /\ stop)
    /\ [][(main' = "returned" /\ main # "returned")
             => (ticker' = "done" /\ work' = "fulfilled"
                 /\ Len(reported') = Len(reported) + 1)]_vars
    /\ [][main = "returned" => reported' = reported]_vars

\* The loop ran to the estimated duration, the work fulfilled after it, and
\* the run returned.
C17_Witness ==
    /\ main = "returned"
    /\ now >= startTime + duration
    /\ Len(reported) >= 4
    /\ ticksAfter = 0

====
